---- MODULE Spec2Model ----
(***************************************************************************)
(* Model of the OAuth 2.0 relying-party examples (Flask app, Django app).  *)
(* One browser session is followed through the request handlers.  Every    *)
(* handler is one action; the answers of the identity provider are inputs  *)
(* drawn from small sets.  A second specification, SpecConc, runs several  *)
(* guarded requests of one session concurrently.                           *)
(***************************************************************************)
EXTENDS Integers, Sequences, FiniteSets, TLC

(* ------------------------------ bounds -------------------------------- *)
MaxAT == 1
MaxRT == 2
MaxStates == 2
MaxTicks == 2
Tick == 200
NReq == 2
MaxUsers == 2
MaxCodes == 2
MaxMinted == 2
MaxScopes == 2

(* ------------------------- program constants -------------------------- *)
RefreshSkew == 300
None == 0
NoUrl == "none"

AccessTokens == 1..MaxAT
RefreshTokens == 1..MaxRT
(* the values secrets.token_urlsafe / token_hex can return *)
States == 1..MaxStates
ExpiresIns == {200, 400}
Codes == {1}
(* request.url of a guarded Flask route (dashboard, api_protected) *)
GuardedUrls == {"/api/protected"}
LOGIN_REDIRECT_URL == "LOGIN_REDIRECT_URL"
DjangoGuardedUrl == "/dashboard/"

(* requests' Response.ok: the status is below 400 *)
ResponseOk(status) == status \in {"2xx", "3xx"}

(* requests' Response.raise_for_status: raises for 4xx and 5xx *)
RaisesForStatus(status) == status \in {"4xx", "5xx"}

(* ------------------------- provider responses ------------------------- *)
(* A token-endpoint answer: status "transport" is a failed connection;    *)
(* a field the JSON body does not carry is None (FALSE for the two flags) *)
NoBody ==
  [access_token |-> None, refresh_token |-> None, expires_in |-> None,
   token_type |-> FALSE, scope |-> FALSE]

(* the bodies that carry every field but, possibly, refresh_token *)
CompleteBodies ==
  [access_token : AccessTokens, refresh_token : RefreshTokens \cup {None},
   expires_in : ExpiresIns, token_type : {TRUE}, scope : {TRUE}]

(* ... and bodies that lack one more field: access_token is the first    *)
(* one every handler reads, so one body without it stands for all         *)
TokenBodies ==
  CompleteBodies
  \cup { NoBody }
  \cup { [b EXCEPT !.expires_in = None] : b \in CompleteBodies }
  \cup { [b EXCEPT !.token_type = FALSE] : b \in CompleteBodies }
  \cup { [b EXCEPT !.scope = FALSE] : b \in CompleteBodies }

FailedResponses ==
  { [status |-> s, body |-> NoBody] : s \in {"4xx", "transport"} }

TokenResponses ==
  { [status |-> "2xx", body |-> b] : b \in TokenBodies } \cup FailedResponses

(* the refresh paths read access_token, refresh_token and expires_in only *)
RefreshResponses ==
  { [status |-> "2xx", body |-> b] : b \in
      CompleteBodies \cup { NoBody }
      \cup { [c EXCEPT !.expires_in = None] : c \in CompleteBodies } }
  \cup FailedResponses

RevokeStatuses == {"2xx", "3xx", "4xx", "5xx", "transport"}

(* the user-info answer: the profile of a principal, or None on failure *)
Principals == 1..MaxUsers

UserResponses == Principals \cup {None}

(* ------------------------------ session ------------------------------- *)
EmptySession ==
  [access_token |-> None, refresh_token |-> None, expires_at |-> None,
   token_type |-> FALSE, scope |-> FALSE, user |-> None,
   oauth_state |-> None, code_verifier |-> None,
   return_to |-> NoUrl, next |-> NoUrl]

VARIABLES
  framework,   \* "flask" or "django": which example application runs
  use_pkce,    \* HeimdallOAuthClient.use_pkce
  middleware,  \* Django: OAuthTokenRefreshMiddleware is installed
  session,     \* the session of one browser
  now,         \* the clock, in seconds
  last,        \* what the last request did (observation only)
  reqs,        \* SpecConc: the guarded requests in progress
  provider,    \* SpecConc: the token endpoint's record of this session
  idp,         \* SpecIdp: the provider's codes, tokens and accounts
  call,        \* SpecClient: one call of a client operation
  api,         \* SpecApi: the FastAPI application and its requests
  authz,       \* SpecAuthUrl: one generated authorization request
  flow         \* SpecFlow: the browser on its way through the redirects

vars ==
  <<framework, use_pkce, middleware, session, now, last, reqs, provider,
    idp, call, api, authz, flow>>

(* the parts a specification does not use stay as they are *)
Unstarted == "unstarted"

Apart == <<idp, call, api, authz, flow>>

(* op, outcome, target: the request and its response.  stateOK: the      *)
(* callback's state parameter equals the stored state.  hadAT: the        *)
(* session held an access token at the start of the request.               *)
(* tokenPosts, refreshPosts: POSTs sent                                    *)
(* to the token endpoint, per grant type.  exchange, refresh: "ok" when    *)
(* the handler's try block completed, "partial" when the client returned   *)
(* a body and a later statement raised, "failed" when the client raised.   *)
(* sentRT, respRT: the refresh token sent and the one answered, of the     *)
(* last refresh.  revoke, revoked: status answered to and result of        *)
(* revoke_token.  sentVerifier: the code_verifier passed to the exchange.  *)
NoLast ==
  [op |-> "init", outcome |-> "none", target |-> NoUrl, stateOK |-> FALSE,
   hadAT |-> FALSE,
   tokenPosts |-> 0, exchange |-> "none",
   refreshPosts |-> 0, refresh |-> "none", sentRT |-> None, respRT |-> None,
   revoke |-> "none", revoked |-> FALSE, sentVerifier |-> None]

NeedsRefresh(s, t) ==
  s.expires_at # None /\ t >= s.expires_at - RefreshSkew

Pre(s, op, t) ==
  [NoLast EXCEPT !.op = op, !.hadAT = s.access_token # None]

(* ------------------------- Flask: oauth_client ------------------------ *)
(* a slip: the answer's body is returned whatever its status *)
FlaskClientRaisesMutant(resp) == resp.status = "transport"

(* refresh_access_token / exchange_code_for_token raise when the POST     *)
(* fails or the answer is not ok                                          *)
FlaskClientRaises(resp) ==
  resp.status = "transport" \/ ~ResponseOk(resp.status)

(* revoke_token: response.ok, or False when requests.post raised *)
revoke_token(status) ==
  IF status = "transport" THEN FALSE ELSE ResponseOk(status)

(* ----------------------------- Flask: app ------------------------------ *)
(* a slip: tokens.get('refresh_token') without the default *)
FlaskRefreshTokenAfterMutant(resp, refresh_token) == resp.body.refresh_token

(* session['refresh_token'] = tokens.get('refresh_token', refresh_token) *)
FlaskRefreshTokenAfter(resp, refresh_token) ==
  IF resp.body.refresh_token # None THEN resp.body.refresh_token
  ELSE refresh_token

(* the body of the try block shared by require_auth and auth_refresh:     *)
(* s is the session when the block is left, st says how it was left       *)
FlaskTryRefresh(s, refresh_token, resp, t) ==
  IF FlaskClientRaises(resp) THEN [st |-> "failed", s |-> s]
  ELSE IF resp.body.access_token = None THEN [st |-> "partial", s |-> s]
  ELSE LET s1 == [s EXCEPT !.access_token = resp.body.access_token,
                           !.refresh_token =
                              FlaskRefreshTokenAfter(resp, refresh_token)]
       IN IF resp.body.expires_in = None THEN [st |-> "partial", s |-> s1]
          ELSE [st |-> "ok",
                s |-> [s1 EXCEPT !.expires_at = t + resp.body.expires_in]]

(* what the except branch of require_auth leaves in the session *)
FlaskGuardAfterFailure(s, url) == [EmptySession EXCEPT !.return_to = url]

(* a slip: the guard tests the expiry it read next to the token *)
FlaskGuardMissingTokenMutant(s) ==
  s.access_token = None /\ s.expires_at # None

FlaskGuardMissingToken(s) == s.access_token = None

(* require_auth: returns the session and the observation of the request *)
require_auth(s, url, resp, t) ==
  LET l == Pre(s, "guard", t) IN
  IF FlaskGuardMissingToken(s)
  THEN [s |-> [s EXCEPT !.return_to = url],
        l |-> [l EXCEPT !.outcome = "login"]]
  ELSE IF NeedsRefresh(s, t)
  THEN IF s.refresh_token # None
       THEN LET r == FlaskTryRefresh(s, s.refresh_token, resp, t)
                lr == [l EXCEPT !.refreshPosts = 1, !.refresh = r.st,
                                !.sentRT = s.refresh_token,
                                !.respRT = resp.body.refresh_token]
            IN IF r.st = "ok"
               THEN [s |-> r.s, l |-> [lr EXCEPT !.outcome = "view"]]
               ELSE [s |-> FlaskGuardAfterFailure(r.s, url),
                     l |-> [lr EXCEPT !.outcome = "login"]]
       ELSE [s |-> [EmptySession EXCEPT !.return_to = url],
             l |-> [l EXCEPT !.outcome = "login"]]
  ELSE [s |-> s, l |-> [l EXCEPT !.outcome = "view"]]

(* a slip: session.setdefault('code_verifier', ...) *)
FlaskLoginVerifierMutant(s, n, pkce) ==
  IF s.code_verifier # None THEN s.code_verifier
  ELSE IF pkce THEN n ELSE None

(* if 'code_verifier' in auth_data: session['code_verifier'] = ...; the    *)
(* verifier of login n is named n like its state                           *)
FlaskLoginVerifier(s, n, pkce) == IF pkce THEN n ELSE s.code_verifier

(* auth_login with generate_authorization_url: n is the fresh random      *)
(* value; the nonce it also stores is read by no handler and is left out  *)
auth_login(s, n, pkce, t) ==
  [s |-> [s EXCEPT !.oauth_state = n,
                   !.code_verifier = FlaskLoginVerifier(s, n, pkce)],
   l |-> [Pre(s, "login", t) EXCEPT !.outcome = "redirect",
                                    !.target = "authorize"]]

(* a slip: the comparison is skipped when the session stores no state *)
FlaskStateRejectedMutant(s, state) ==
  s.oauth_state # None /\ state # s.oauth_state

FlaskStateRejected(s, state) == state # s.oauth_state

(* session.pop('oauth_state'), session.pop('code_verifier') *)
FlaskConsume(s) == [s EXCEPT !.oauth_state = None, !.code_verifier = None]

(* a slip: the pending login is dropped when the callback is rejected *)
FlaskRejectedMutant(s) == FlaskConsume(s)

(* the session when auth_callback returns before the exchange: no          *)
(* statement on these paths writes to it                                   *)
FlaskRejected(s) == s

(* auth_callback *)
auth_callback(s, code, state, error, resp, uresp, t) ==
  LET l == [Pre(s, "callback", t) EXCEPT
              !.stateOK = (state = s.oauth_state), !.outcome = "error"]
  IN
  IF error THEN [s |-> FlaskRejected(s), l |-> l]
  ELSE IF code = None \/ state = None THEN [s |-> FlaskRejected(s), l |-> l]
  ELSE IF FlaskStateRejected(s, state) THEN [s |-> FlaskRejected(s), l |-> l]
  ELSE
    LET s2 == FlaskConsume(s)
        lp == [l EXCEPT !.tokenPosts = 1, !.sentVerifier = s.code_verifier]
        lf == [lp EXCEPT !.exchange = "failed"]
        lx == [lp EXCEPT !.exchange = "partial"]
    IN
    IF FlaskClientRaises(resp) THEN [s |-> s2, l |-> lf]
    ELSE IF resp.body.access_token = None THEN [s |-> s2, l |-> lx]
    ELSE
      LET s3 == [s2 EXCEPT !.access_token = resp.body.access_token,
                           !.refresh_token = resp.body.refresh_token]
      IN
      IF resp.body.expires_in = None THEN [s |-> s3, l |-> lx]
      ELSE
        LET s4 == [s3 EXCEPT !.expires_at = t + resp.body.expires_in] IN
        IF ~resp.body.token_type THEN [s |-> s4, l |-> lx]
        ELSE IF ~resp.body.scope
        THEN [s |-> [s4 EXCEPT !.token_type = TRUE], l |-> lx]
        ELSE
          LET s6 == [s4 EXCEPT !.token_type = TRUE, !.scope = TRUE] IN
          IF uresp = None THEN [s |-> s6, l |-> lx]
          ELSE [s |-> [s6 EXCEPT !.user = uresp, !.return_to = NoUrl],
                l |-> [lp EXCEPT !.exchange = "ok",
                                 !.outcome = "redirect",
                                 !.target = IF s6.return_to = NoUrl
                                            THEN "/dashboard"
                                            ELSE s6.return_to]]

(* a slip: the token keys are popped instead of the session cleared *)
FlaskLogoutSessionMutant(s) ==
  [s EXCEPT !.access_token = None, !.refresh_token = None]

(* session.clear() at the end of auth_logout *)
FlaskLogoutSession(s) == EmptySession

(* auth_logout *)
auth_logout(s, status, t) ==
  LET l == [Pre(s, "logout", t) EXCEPT !.outcome = "redirect",
                                       !.target = "/"]
  IN [s |-> FlaskLogoutSession(s),
      l |-> IF s.access_token # None
            THEN [l EXCEPT !.revoke = status,
                           !.revoked = revoke_token(status)]
            ELSE l]

(* auth_refresh *)
auth_refresh(s, resp, t) ==
  LET l == Pre(s, "refresh", t) IN
  IF s.refresh_token = None
  THEN [s |-> s, l |-> [l EXCEPT !.outcome = "unauthorized"]]
  ELSE LET r == FlaskTryRefresh(s, s.refresh_token, resp, t)
           lr == [l EXCEPT !.refreshPosts = 1, !.refresh = r.st,
                           !.sentRT = s.refresh_token,
                           !.respRT = resp.body.refresh_token]
       IN [s |-> r.s,
           l |-> IF r.st = "ok" THEN [lr EXCEPT !.outcome = "json"]
                 ELSE [lr EXCEPT !.outcome = "unauthorized"]]

(* auth_user *)
auth_user(s, uresp, t) ==
  LET l == Pre(s, "user", t) IN
  IF s.access_token = None
  THEN [s |-> s, l |-> [l EXCEPT !.outcome = "unauthorized"]]
  ELSE IF s.user # None
  THEN [s |-> s, l |-> [l EXCEPT !.outcome = "json"]]
  ELSE IF uresp = None
  THEN [s |-> s, l |-> [l EXCEPT !.outcome = "unauthorized"]]
  ELSE [s |-> [s EXCEPT !.user = uresp], l |-> [l EXCEPT !.outcome = "json"]]

(* ------------------------ Django: oauth_client ------------------------ *)
(* get_tokens / refresh_access_token: requests.post, raise_for_status *)
DjangoClientRaises(resp) ==
  resp.status = "transport" \/ RaisesForStatus(resp.status)

(* if 'refresh_token' in tokens: session['refresh_token'] = ... *)
DjangoRefreshTokenAfter(resp, refresh_token) ==
  IF resp.body.refresh_token # None THEN resp.body.refresh_token
  ELSE refresh_token

(* the try block of require_oauth and of the middleware (same statements) *)
DjangoTryRefresh(s, refresh_token, resp, t) ==
  IF DjangoClientRaises(resp) THEN [st |-> "failed", s |-> s]
  ELSE IF resp.body.access_token = None THEN [st |-> "partial", s |-> s]
  ELSE LET s1 == [s EXCEPT !.access_token = resp.body.access_token] IN
       IF resp.body.expires_in = None THEN [st |-> "partial", s |-> s1]
       ELSE [st |-> "ok",
             s |-> [s1 EXCEPT !.expires_at = t + resp.body.expires_in,
                              !.refresh_token =
                                DjangoRefreshTokenAfter(resp, refresh_token)]]

(* request.session.flush() in the except branch *)
DjangoAfterFailure(s) == EmptySession

(* the refresh of both, with its except branch; r is [s, l] *)
DjangoRefreshStep(r, resp, t) ==
  LET s == r.s
      tr == DjangoTryRefresh(s, s.refresh_token, resp, t)
      lr == [r.l EXCEPT !.refreshPosts = @ + 1, !.refresh = tr.st,
                        !.sentRT = s.refresh_token,
                        !.respRT = resp.body.refresh_token]
  IN IF tr.st = "ok" THEN [s |-> tr.s, l |-> lr]
     ELSE [s |-> DjangoAfterFailure(tr.s), l |-> lr]

(* the conditions under which middleware and decorator refresh *)
DjangoRefreshes(s, t) ==
  s.access_token # None /\ NeedsRefresh(s, t) /\ s.refresh_token # None

(* OAuthTokenRefreshMiddleware.__call__, up to get_response *)
OAuthTokenRefreshMiddleware(r, resp, t) ==
  IF DjangoRefreshes(r.s, t) THEN DjangoRefreshStep(r, resp, t) ELSE r

(* a Django request enters: the middleware runs first when installed *)
DjangoEnter(s, op, mw, resp, t) ==
  LET r == [s |-> s, l |-> Pre(s, op, t)] IN
  IF mw THEN OAuthTokenRefreshMiddleware(r, resp, t) ELSE r

(* a slip: the guard tests the expiry it read next to the token *)
DjangoGuardMissingTokenMutant(s) ==
  s.access_token = None /\ s.expires_at # None

(* if not access_token *)
DjangoGuardMissingToken(s) == s.access_token = None

(* require_oauth around a view *)
require_oauth(r, url, resp, t) ==
  IF DjangoGuardMissingToken(r.s)
  THEN [s |-> [r.s EXCEPT !.next = url],
        l |-> [r.l EXCEPT !.outcome = "login"]]
  ELSE IF DjangoRefreshes(r.s, t)
  THEN LET x == DjangoRefreshStep(r, resp, t) IN
       IF x.l.refresh = "ok"
       THEN [s |-> x.s, l |-> [x.l EXCEPT !.outcome = "view"]]
       ELSE [s |-> x.s, l |-> [x.l EXCEPT !.outcome = "login"]]
  ELSE [s |-> r.s, l |-> [r.l EXCEPT !.outcome = "view"]]

(* login_view *)
login_view(r, n) ==
  [s |-> [r.s EXCEPT !.oauth_state = n, !.code_verifier = n],
   l |-> [r.l EXCEPT !.outcome = "redirect", !.target = "authorize"]]

(* a slip: "if state and state != saved_state" *)
DjangoStateRejectedMutant(s, state) ==
  state # None /\ state # s.oauth_state

DjangoStateRejected(s, state) == state # s.oauth_state

(* what callback_view deletes after the tokens are stored *)
DjangoCleanUp(s) == [s EXCEPT !.oauth_state = None, !.code_verifier = None]

(* callback_view *)
callback_view(r, code, state, resp, t) ==
  LET s == r.s
      l == [r.l EXCEPT !.stateOK = (state = s.oauth_state),
                       !.outcome = "error"]
  IN
  IF DjangoStateRejected(s, state) \/ code = None \/ s.code_verifier = None
  THEN [s |-> s, l |-> l]
  ELSE
    LET lp == [l EXCEPT !.tokenPosts = 1, !.sentVerifier = s.code_verifier]
        lf == [lp EXCEPT !.exchange = "failed"]
        lx == [lp EXCEPT !.exchange = "partial"]
    IN
    IF DjangoClientRaises(resp) THEN [s |-> s, l |-> lf]
    ELSE IF resp.body.access_token = None THEN [s |-> s, l |-> lx]
    ELSE
      LET s1 == [s EXCEPT !.access_token = resp.body.access_token] IN
      IF resp.body.expires_in = None THEN [s |-> s1, l |-> lx]
      ELSE
        LET s2 == [s1 EXCEPT !.expires_at = t + resp.body.expires_in,
                             !.refresh_token =
                               DjangoRefreshTokenAfter(resp, s1.refresh_token)]
        IN [s |-> DjangoCleanUp(s2),
            l |-> [lp EXCEPT !.exchange = "ok",
                             !.outcome = "redirect",
                             !.target = LOGIN_REDIRECT_URL]]

(* logout_view *)
logout_view(r) ==
  [s |-> EmptySession,
   l |-> [r.l EXCEPT !.outcome = "redirect", !.target = "/"]]

(* the answers a request consumes: one when it is going to ask, else a    *)
(* fixed unused one                                                       *)
Unused == [status |-> "transport", body |-> NoBody]

AskedIf(cond, set) == IF cond THEN set ELSE {Unused}

(* ===================== the requests of one session ===================== *)
Reqs == 1..NReq

IdleReq == [pc |-> "idle", r |-> [s |-> EmptySession, l |-> NoLast]]

NoProvider == [rt |-> None, minted |-> 0, rotates |-> FALSE]

(* the applications as configured: the Flask one with USE_PKCE at its    *)
(* default, the Django one without and with the refresh middleware        *)
Configs ==
  { <<"flask", TRUE, FALSE>>,
    <<"django", TRUE, FALSE>>, <<"django", TRUE, TRUE>> }

Init ==
  /\ \E c \in Configs :
        framework = c[1] /\ use_pkce = c[2] /\ middleware = c[3]
  /\ session = EmptySession
  /\ now = 0
  /\ last = NoLast
  /\ reqs = [i \in Reqs |-> IdleReq]
  /\ provider = NoProvider
  /\ idp = Unstarted /\ call = Unstarted /\ api = Unstarted
  /\ authz = Unstarted /\ flow = Unstarted

Config == <<framework, use_pkce, middleware>>

(* a login draws a random state: it differs from the one in the session   *)
FreshStates(s) == States \ {s.oauth_state}

(* r is the [s, l] result of a handler *)
Done(r) == session' = r.s /\ last' = r.l /\ UNCHANGED <<reqs, provider>>

(* time passes; while no expiry is stored no handler reads the clock's    *)
(* value but to add expires_in to it, so only then is its passing modelled *)
Advance ==
  /\ session.expires_at # None
  /\ now < MaxTicks * Tick
  /\ now' = now + Tick
  /\ last' = Pre(session, "tick", now)
  /\ UNCHANGED <<Config, Apart, session, reqs, provider>>

FlaskLogin ==
  /\ framework = "flask"
  /\ \E n \in FreshStates(session) :
       Done(auth_login(session, n, use_pkce, now))
  /\ UNCHANGED <<Config, Apart, now>>

FlaskCallback ==
  /\ framework = "flask"
  /\ \E code \in Codes \cup {None}, state \in States \cup {None}, error \in BOOLEAN :
       LET asks == ~error /\ code # None /\ state # None
                   /\ ~FlaskStateRejected(session, state)
       IN \E resp \in AskedIf(asks, TokenResponses) :
            \E uresp \in IF asks /\ resp.body \in CompleteBodies
                         THEN UserResponses ELSE {None} :
              Done(auth_callback(session, code, state, error, resp, uresp,
                                 now))
  /\ UNCHANGED <<Config, Apart, now>>

FlaskLogout ==
  /\ framework = "flask"
  /\ \E status \in IF session.access_token # None THEN RevokeStatuses
                   ELSE {"transport"} :
       Done(auth_logout(session, status, now))
  /\ UNCHANGED <<Config, Apart, now>>

FlaskRefresh ==
  /\ framework = "flask"
  /\ \E resp \in AskedIf(session.refresh_token # None, RefreshResponses) :
       Done(auth_refresh(session, resp, now))
  /\ UNCHANGED <<Config, Apart, now>>

FlaskUser ==
  /\ framework = "flask"
  /\ \E uresp \in UserResponses : Done(auth_user(session, uresp, now))
  /\ UNCHANGED <<Config, Apart, now>>

FlaskGuarded ==
  /\ framework = "flask"
  /\ \E url \in GuardedUrls :
       \E resp \in AskedIf(session.access_token # None
                           /\ NeedsRefresh(session, now)
                           /\ session.refresh_token # None,
                           RefreshResponses) :
         Done(require_auth(session, url, resp, now))
  /\ UNCHANGED <<Config, Apart, now>>

(* the answer the middleware consumes in front of a Django view *)
MiddlewareAnswers ==
  AskedIf(middleware /\ DjangoRefreshes(session, now), RefreshResponses)

DjangoLogin ==
  /\ framework = "django"
  /\ \E mresp \in MiddlewareAnswers, n \in FreshStates(session) :
       Done(login_view(DjangoEnter(session, "login", middleware, mresp, now),
                       n))
  /\ UNCHANGED <<Config, Apart, now>>

DjangoCallback ==
  /\ framework = "django"
  /\ \E code \in Codes \cup {None}, state \in States \cup {None},
        mresp \in MiddlewareAnswers :
       LET r == DjangoEnter(session, "callback", middleware, mresp, now)
           asks == ~DjangoStateRejected(r.s, state) /\ code # None
                   /\ r.s.code_verifier # None
       IN \E resp \in AskedIf(asks, TokenResponses) :
            Done(callback_view(r, code, state, resp, now))
  /\ UNCHANGED <<Config, Apart, now>>

DjangoLogout ==
  /\ framework = "django"
  /\ \E mresp \in MiddlewareAnswers :
       Done(logout_view(
              DjangoEnter(session, "logout", middleware, mresp, now)))
  /\ UNCHANGED <<Config, Apart, now>>

DjangoGuarded ==
  /\ framework = "django"
  /\ \E mresp \in MiddlewareAnswers :
       LET r == DjangoEnter(session, "guard", middleware, mresp, now) IN
       \E resp \in AskedIf(DjangoRefreshes(r.s, now), RefreshResponses) :
         Done(require_oauth(r, DjangoGuardedUrl, resp, now))
  /\ UNCHANGED <<Config, Apart, now>>

Next ==
  \/ Advance
  \/ FlaskLogin
  \/ FlaskCallback
  \/ FlaskLogout
  \/ FlaskRefresh
  \/ FlaskUser
  \/ FlaskGuarded
  \/ DjangoLogin
  \/ DjangoCallback
  \/ DjangoLogout
  \/ DjangoGuarded

Spec == Init /\ [][Next]_vars

(* ================= concurrent guarded requests: SpecConc ================ *)
(* Each request works on the copy of the session it loaded when it began  *)
(* and the copy is written back with the response if the handler wrote to *)
(* it.  A request is interrupted where it waits for the provider.         *)

(* the token endpoint, grant_type=refresh_token: the refresh token on     *)
(* record is accepted and a new access token minted; a provider that      *)
(* rotates also replaces the refresh token on record                      *)
ProviderRefresh(p, refresh_token, ein) ==
  IF refresh_token = p.rt
  THEN [resp |-> [status |-> "2xx",
                  body |-> [access_token |-> p.minted + 1,
                            refresh_token |-> IF p.rotates
                                              THEN p.minted + 1 ELSE None,
                            expires_in |-> ein,
                            token_type |-> TRUE, scope |-> TRUE]],
        p |-> [p EXCEPT !.minted = @ + 1,
                        !.rt = IF p.rotates THEN p.minted + 1 ELSE @]]
  ELSE [resp |-> [status |-> "4xx", body |-> NoBody], p |-> p]

(* the session a successful callback at time 0 leaves *)
LoggedIn(fw, ein) ==
  IF fw = "flask"
  THEN [EmptySession EXCEPT !.access_token = 1, !.refresh_token = 1,
                            !.expires_at = ein, !.token_type = TRUE,
                            !.scope = TRUE, !.user = 1]
  ELSE [EmptySession EXCEPT !.access_token = 1, !.refresh_token = 1,
                            !.expires_at = ein]

InitConc ==
  /\ \E c \in Configs :
        framework = c[1] /\ use_pkce = c[2] /\ middleware = c[3]
  /\ \E ein \in ExpiresIns : session = LoggedIn(framework, ein)
  /\ now = 0
  /\ last = NoLast
  /\ reqs = [i \in Reqs |-> IdleReq]
  /\ \E rot \in BOOLEAN :
        provider = [rt |-> 1, minted |-> 1, rotates |-> rot]
  /\ idp = Unstarted /\ call = Unstarted /\ api = Unstarted
  /\ authz = Unstarted /\ flow = Unstarted

(* the handler wrote to its session: the response saves it *)
Dirty(l) == l.outcome = "login" \/ l.refreshPosts > 0

(* the request ends: its session copy is saved if the handler wrote to it *)
Respond(i, r) ==
  /\ reqs' = [reqs EXCEPT ![i] = [pc |-> "done", r |-> r]]
  /\ session' = IF Dirty(r.l) THEN r.s ELSE session

Waits(i, pc, r) ==
  /\ reqs' = [reqs EXCEPT ![i] = [pc |-> pc, r |-> r]]
  /\ UNCHANGED session

GuardUrl == IF framework = "flask" THEN "/api/protected" ELSE DjangoGuardedUrl

(* the guard starts on the copy r.s: it posts a refresh and waits, or ends *)
GuardEntry(i, r) ==
  IF framework = "flask"
  THEN IF r.s.access_token # None /\ NeedsRefresh(r.s, now)
          /\ r.s.refresh_token # None
       THEN Waits(i, "wait", r)
       ELSE Respond(i, require_auth(r.s, GuardUrl, Unused, now))
  ELSE IF DjangoRefreshes(r.s, now)
       THEN Waits(i, "wait", r)
       ELSE Respond(i, require_oauth(r, GuardUrl, Unused, now))

ConcBegin(i) ==
  /\ reqs[i].pc = "idle"
  /\ LET r == [s |-> session, l |-> Pre(session, "guard", now)] IN
     IF framework = "django" /\ middleware /\ DjangoRefreshes(session, now)
     THEN Waits(i, "mw_wait", r)
     ELSE GuardEntry(i, r)
  /\ UNCHANGED <<Config, Apart, now, last, provider>>

(* the provider answers the middleware's POST *)
ConcMiddlewareAnswer(i) ==
  /\ reqs[i].pc = "mw_wait"
  /\ \E ein \in ExpiresIns :
       LET a == ProviderRefresh(provider, reqs[i].r.s.refresh_token, ein) IN
       /\ provider' = a.p
       /\ GuardEntry(i, OAuthTokenRefreshMiddleware(reqs[i].r, a.resp, now))
  /\ UNCHANGED <<Config, Apart, now, last>>

(* the provider answers the guard's POST *)
ConcGuardAnswer(i) ==
  /\ reqs[i].pc = "wait"
  /\ \E ein \in ExpiresIns :
       LET a == ProviderRefresh(provider, reqs[i].r.s.refresh_token, ein) IN
       /\ provider' = a.p
       /\ Respond(i, IF framework = "flask"
                     THEN require_auth(reqs[i].r.s, GuardUrl, a.resp, now)
                     ELSE require_oauth(reqs[i].r, GuardUrl, a.resp, now))
  /\ UNCHANGED <<Config, Apart, now, last>>

ConcAdvance ==
  /\ now < MaxTicks * Tick
  /\ now' = now + Tick
  /\ UNCHANGED <<Config, Apart, session, last, reqs, provider>>

NextConc ==
  \/ \E i \in Reqs : ConcBegin(i)
  \/ \E i \in Reqs : ConcMiddlewareAnswer(i)
  \/ \E i \in Reqs : ConcGuardAnswer(i)
  \/ ConcAdvance

SpecConc == InitConc /\ [][NextConc]_vars

(* ============ the session against a stateful provider: SpecIdp ========= *)
(* The provider signs an account in and hands the browser an authorization *)
(* code; its token endpoint accepts every code once and mints an access    *)
(* token for the account of the code; its user-info endpoint answers with  *)
(* the account that owns the bearer token.                                  *)
IdpCodes == 1..MaxCodes

IdpExpiresIn == 400

(* codes[c]: the account code c was issued for; used: the codes redeemed;  *)
(* owner[a]: the account of access token a.  Observation only: logins[c]   *)
(* counts the callbacks that completed a login with code c, reuse says the *)
(* last request posted a code that had been redeemed before.               *)
NoIdp ==
  [codes |-> [c \in IdpCodes |-> None], used |-> {},
   owner |-> [a \in 1..MaxMinted |-> None], minted |-> 0,
   logins |-> [c \in IdpCodes |-> 0], reuse |-> FALSE]

(* the token endpoint, grant_type=authorization_code *)
IdpToken(p, code) ==
  IF p.codes[code] # None /\ code \notin p.used
  THEN [resp |-> [status |-> "2xx",
                  body |-> [access_token |-> p.minted + 1,
                            refresh_token |-> p.minted + 1,
                            expires_in |-> IdpExpiresIn,
                            token_type |-> TRUE, scope |-> TRUE]],
        p |-> [p EXCEPT !.used = @ \cup {code},
                        !.minted = @ + 1,
                        !.owner[p.minted + 1] = p.codes[code]]]
  ELSE [resp |-> [status |-> "4xx", body |-> NoBody], p |-> p]

(* the user-info endpoint: the profile of the token's account *)
IdpUserInfo(p, access_token) == p.owner[access_token]

InitIdp ==
  /\ \E c \in Configs :
        framework = c[1] /\ use_pkce = c[2] /\ middleware = c[3]
  /\ session = EmptySession
  /\ now = 0
  /\ last = NoLast
  /\ reqs = [i \in Reqs |-> IdleReq]
  /\ provider = NoProvider
  /\ idp = NoIdp
  /\ call = Unstarted /\ api = Unstarted /\ authz = Unstarted
  /\ flow = Unstarted

IdpRest == <<Config, now, reqs, provider, call, api, authz, flow>>

(* GET /auth/login, GET /oauth/login/ *)
IdpLogin ==
  /\ \E n \in FreshStates(session) :
       LET r == IF framework = "flask"
                THEN auth_login(session, n, use_pkce, now)
                ELSE login_view(DjangoEnter(session, "login", middleware,
                                            Unused, now), n)
       IN session' = r.s /\ last' = r.l
  /\ idp' = [idp EXCEPT !.reuse = FALSE]
  /\ UNCHANGED IdpRest

(* the provider signs account u in and issues a code for it *)
IdpAuthorize ==
  /\ \E c \in IdpCodes, u \in Principals :
       /\ idp.codes[c] = None
       /\ idp' = [idp EXCEPT !.codes[c] = u, !.reuse = FALSE]
  /\ UNCHANGED <<session, last, IdpRest>>

(* the callback request; outage: the token POST fails in transport or the  *)
(* user-info GET fails                                                      *)
IdpCallback ==
  /\ idp.minted < MaxMinted
  /\ \E code \in IdpCodes, state \in States \cup {None},
        outage \in {"none", "token", "userinfo"} :
       LET r0 == DjangoEnter(session, "callback", middleware, Unused, now)
           asks == IF framework = "flask"
                   THEN state # None /\ ~FlaskStateRejected(session, state)
                   ELSE ~DjangoStateRejected(r0.s, state)
                        /\ r0.s.code_verifier # None
           sends == asks /\ outage # "token"
           a == IdpToken(idp, code)
           resp == IF sends THEN a.resp ELSE Unused
           uresp == IF sends /\ outage = "none"
                       /\ resp.body.access_token # None
                    THEN IdpUserInfo(a.p, resp.body.access_token) ELSE None
           r == IF framework = "flask"
                THEN auth_callback(session, code, state, FALSE, resp, uresp,
                                   now)
                ELSE callback_view(r0, code, state, resp, now)
           p == IF sends THEN a.p ELSE idp
       IN /\ (outage # "none" => asks)
          /\ session' = r.s /\ last' = r.l
          /\ idp' = [p EXCEPT
                       !.reuse = sends /\ code \in idp.used,
                       !.logins[code] =
                          IF r.l.exchange = "ok" THEN @ + 1 ELSE @]
  /\ UNCHANGED IdpRest

(* GET /auth/user (Flask) *)
IdpUser ==
  /\ framework = "flask"
  /\ \E fails \in BOOLEAN :
       LET uresp == IF fails \/ session.access_token = None THEN None
                    ELSE IdpUserInfo(idp, session.access_token)
           r == auth_user(session, uresp, now)
       IN session' = r.s /\ last' = r.l
  /\ idp' = [idp EXCEPT !.reuse = FALSE]
  /\ UNCHANGED IdpRest

(* logout; the revoke call's answer changes nothing in the session *)
IdpLogout ==
  /\ LET r == IF framework = "flask"
              THEN auth_logout(session, "2xx", now)
              ELSE logout_view(DjangoEnter(session, "logout", middleware,
                                           Unused, now))
     IN session' = r.s /\ last' = r.l
  /\ idp' = [idp EXCEPT !.reuse = FALSE]
  /\ UNCHANGED IdpRest

NextIdp ==
  \/ IdpLogin
  \/ IdpAuthorize
  \/ IdpCallback
  \/ IdpUser
  \/ IdpLogout

SpecIdp == InitIdp /\ [][NextIdp]_vars

(* ================ one call of a client operation: SpecClient =========== *)
(* A request handler, or a direct caller, invokes operations of the OAuth  *)
(* client one after the other.  An operation sends its HTTP request, waits *)
(* for the answer and returns or raises.  The provider may answer anything *)
(* or nothing.  What a returned body holds is not followed here: a handler *)
(* goes on to its next operation whenever the one before returned.         *)

(* the timeout of the HTTP library as the client uses it: requests.post    *)
(* and requests.get are called without one (no limit), the httpx client of *)
(* TruxeClient is built with timeout=10.0                                   *)
HttpxTimeout == 10

Timeout(client) == IF client = "fastapi" THEN HttpxTimeout ELSE None

TokenOps == {"exchange_code_for_token", "refresh_access_token", "get_tokens"}

(* the operations a handler calls, in order; "direct" is a caller that     *)
(* invokes one operation                                                   *)
Handlers ==
  { [client |-> "flask", handler |-> "direct", todo |-> <<op>>] :
      op \in {"exchange_code_for_token", "refresh_access_token",
              "get_user_info", "introspect_token", "revoke_token"} }
  \cup
  { [client |-> "django", handler |-> "direct", todo |-> <<op>>] :
      op \in {"get_tokens", "refresh_access_token"} }
  \cup
  { [client |-> "fastapi", handler |-> "direct", todo |-> <<"get_public_key">>],
    [client |-> "flask", handler |-> "auth_callback",
     todo |-> <<"exchange_code_for_token", "get_user_info">>],
    [client |-> "flask", handler |-> "auth_logout",
     todo |-> <<"revoke_token">>],
    [client |-> "django", handler |-> "callback_view",
     todo |-> <<"get_tokens">>] }

(* an answer: the status class, whether the body parses as JSON, and       *)
(* whether the parsed body has the keys error and error_description        *)
NoAnswer ==
  [status |-> "none", parseable |-> FALSE, error |-> FALSE,
   description |-> FALSE]

HttpAnswers ==
  { [status |-> s, parseable |-> TRUE, error |-> e, description |-> d] :
      s \in {"2xx", "3xx", "4xx", "5xx"}, e \in BOOLEAN, d \in BOOLEAN }
  \cup
  { [NoAnswer EXCEPT !.status = s] : s \in {"2xx", "3xx", "4xx", "5xx"} }

(* requests.post / httpx raised: connection failure, timeout *)
TransportFailure == [NoAnswer EXCEPT !.status = "transport"]

TimedOut == [NoAnswer EXCEPT !.status = "timeout"]

(* what an operation hands to its caller: kind is "returned" or "raised";  *)
(* value is the boolean revoke_token returns; error, description, status   *)
(* say whether the raised failure carries the answer's error code, its     *)
(* description, its HTTP status                                            *)
NoResult ==
  [kind |-> "none", value |-> FALSE, error |-> FALSE, description |-> FALSE,
   status |-> FALSE]

Returned == [NoResult EXCEPT !.kind = "returned"]

Raised == [NoResult EXCEPT !.kind = "raised"]

Failed(answer) == answer.status \in {"transport", "timeout"}

(* return response.json() *)
ResponseJson(answer) == IF answer.parseable THEN Returned ELSE Raised

(* exchange_code_for_token, refresh_access_token: the message raised is    *)
(* error_description, or error, or a fixed text                            *)
FlaskTokenOp(answer) ==
  IF Failed(answer) THEN Raised
  ELSE IF ~ResponseOk(answer.status)
  THEN IF ~answer.parseable THEN Raised
       ELSE [Raised EXCEPT !.description = answer.description,
                           !.error = ~answer.description /\ answer.error]
  ELSE ResponseJson(answer)

(* get_user_info, introspect_token: a fixed message *)
FlaskQueryOp(answer) ==
  IF Failed(answer) THEN Raised
  ELSE IF ~ResponseOk(answer.status) THEN Raised
  ELSE ResponseJson(answer)

(* revoke_token as an operation on an answer *)
FlaskRevokeOp(answer) ==
  [Returned EXCEPT !.value =
     revoke_token(IF Failed(answer) THEN "transport" ELSE answer.status)]

(* get_tokens, refresh_access_token of the Django client: the HTTPError of *)
(* raise_for_status names the status and holds the response                *)
DjangoTokenOp(answer) ==
  IF Failed(answer) THEN Raised
  ELSE IF RaisesForStatus(answer.status)
  THEN [Raised EXCEPT !.status = TRUE,
                      !.error = answer.parseable /\ answer.error,
                      !.description = answer.parseable /\ answer.description]
  ELSE ResponseJson(answer)

(* get_public_key: every httpx.HTTPError becomes HTTPException(500) with a *)
(* fixed detail; httpx raises for every status that is not 2xx             *)
get_public_key_result(answer) ==
  IF Failed(answer) \/ answer.status # "2xx" THEN Raised
  ELSE ResponseJson(answer)

ClientResult(client, op, answer) ==
  IF client = "flask"
  THEN IF op \in TokenOps THEN FlaskTokenOp(answer)
       ELSE IF op = "revoke_token" THEN FlaskRevokeOp(answer)
       ELSE FlaskQueryOp(answer)
  ELSE IF client = "django" THEN DjangoTokenOp(answer)
  ELSE get_public_key_result(answer)

(* a slip: a failed operation is sent again *)
AfterOperationMutant(handler, todo, result) ==
  IF result.kind = "raised" THEN "retry"
  ELSE IF Len(todo) > 1 THEN "ready" ELSE "done"

(* where the caller goes when the operation is over: a handler whose       *)
(* operation raised leaves through its except branch; no operation is      *)
(* sent again                                                              *)
AfterOperation(handler, todo, result) ==
  IF result.kind = "returned" /\ Len(todo) > 1 THEN "ready" ELSE "done"

(* sent: HTTP requests of the operation in progress; tokenPosts: POSTs of  *)
(* the whole request to the token endpoint; cleared: auth_logout reached   *)
(* session.clear()                                                         *)
InitClient ==
  /\ session = EmptySession
  /\ now = 0
  /\ last = NoLast
  /\ reqs = [i \in Reqs |-> IdleReq]
  /\ provider = NoProvider
  /\ idp = Unstarted /\ api = Unstarted /\ authz = Unstarted
  /\ flow = Unstarted
  /\ \E h \in Handlers :
       /\ framework = h.client /\ use_pkce = TRUE /\ middleware = FALSE
       /\ call = [client |-> h.client, handler |-> h.handler,
                  todo |-> h.todo, op |-> "none", pc |-> "ready",
                  sent |-> 0, tokenPosts |-> 0, answer |-> NoAnswer,
                  result |-> NoResult, cleared |-> FALSE]

ClientRest ==
  <<Config, session, now, last, reqs, provider, idp, api, authz, flow>>

(* the operation sends its request *)
ClientSend ==
  /\ call.pc \in {"ready", "retry"}
  /\ LET op == Head(call.todo) IN
     call' = [call EXCEPT
                !.op = op, !.pc = "sent",
                !.sent = IF call.pc = "ready" THEN 1 ELSE @ + 1,
                !.tokenPosts = IF op \in TokenOps THEN @ + 1 ELSE @,
                !.answer = NoAnswer, !.result = NoResult]
  /\ UNCHANGED ClientRest

(* the provider answers, or the connection fails *)
ProviderAnswers ==
  /\ call.pc = "sent"
  /\ \E answer \in HttpAnswers \cup {TransportFailure} :
       call' = [call EXCEPT !.pc = "answered", !.answer = answer]
  /\ UNCHANGED ClientRest

(* the HTTP library gives up waiting, if it was given a timeout *)
ClientTimesOut ==
  /\ call.pc = "sent"
  /\ Timeout(call.client) # None
  /\ call' = [call EXCEPT !.pc = "answered", !.answer = TimedOut]
  /\ UNCHANGED ClientRest

(* the operation returns or raises to its caller *)
ClientFinishes ==
  /\ call.pc = "answered"
  /\ LET result == ClientResult(call.client, call.op, call.answer)
         pc == AfterOperation(call.handler, call.todo, result)
     IN call' = [call EXCEPT
                   !.result = result, !.pc = pc,
                   !.todo = IF pc = "ready" THEN Tail(@) ELSE @,
                   !.cleared = pc = "done" /\ call.handler = "auth_logout"]
  /\ UNCHANGED ClientRest

NextClient ==
  \/ ClientSend
  \/ ProviderAnswers
  \/ ClientTimesOut
  \/ ClientFinishes

SpecClient == InitClient /\ [][NextClient]_vars

(* the client's own steps are taken when they can be; the provider owes no *)
(* answer                                                                  *)
SpecClientLive ==
  /\ SpecClient
  /\ WF_vars(ClientSend) /\ WF_vars(ClientTimesOut) /\ WF_vars(ClientFinishes)

(* ===================== the FastAPI application: SpecApi ================= *)
(* Requests to a protected route run get_current_user concurrently on one  *)
(* TruxeClient; a request is suspended at the await of the JWKS GET.       *)

(* a bearer token: signed says its signature verifies under the provider's *)
(* key, claims that it is a well-formed JWT whose issuer, audience and     *)
(* expiry pass                                                             *)
BearerTokens == [signed : BOOLEAN, claims : BOOLEAN]

(* the JWKS endpoint answers with one key, with an empty key set, or the   *)
(* GET fails (httpx.HTTPError)                                             *)
JwksAnswers == {"key", "empty", "error"}

ProviderKey == 1

(* options={"verify_signature": False} *)
verify_signature == FALSE

(* jose's jwt.decode: the signature is checked only when asked for, the    *)
(* claims always; TRUE when it returns the payload, FALSE on JWTError      *)
jwt_decode(token, jwk, verify) ==
  /\ token.claims
  /\ verify => (jwk # None /\ token.signed)

(* self._public_key = jwks["keys"][0] if jwks.get("keys") else None *)
CachedKey(answer) == IF answer = "key" THEN ProviderKey ELSE None

(* get_current_user from jwt.decode on *)
get_current_user(token, jwk) ==
  IF jwt_decode(token, jwk, verify_signature) THEN "user" ELSE "401"

IdleCall == [pc |-> "idle", token |-> [signed |-> TRUE, claims |-> TRUE],
             outcome |-> "none"]

(* _public_key: the cache of the client.  Observation only: succeeded, a   *)
(* JWKS GET has been answered without error; lateGets, the GETs sent after *)
(* that.                                                                   *)
InitApi ==
  /\ framework = "fastapi" /\ use_pkce = TRUE /\ middleware = FALSE
  /\ session = EmptySession
  /\ now = 0
  /\ last = NoLast
  /\ reqs = [i \in Reqs |-> IdleReq]
  /\ provider = NoProvider
  /\ idp = Unstarted /\ call = Unstarted /\ authz = Unstarted
  /\ flow = Unstarted
  /\ api = [public_key |-> None, succeeded |-> FALSE, lateGets |-> 0,
            calls |-> [i \in Reqs |-> IdleCall]]

ApiRest ==
  <<Config, session, now, last, reqs, provider, idp, call, authz, flow>>

(* a request arrives: get_public_key returns the cached key, or sends the  *)
(* GET and awaits                                                          *)
ApiBegin(i) ==
  /\ api.calls[i].pc = "idle"
  /\ \E token \in BearerTokens :
       IF api.public_key # None
       THEN api' = [api EXCEPT
                      !.calls[i] = [pc |-> "done", token |-> token,
                                    outcome |-> get_current_user(
                                                   token, api.public_key)]]
       ELSE api' = [api EXCEPT
                      !.calls[i] = [pc |-> "fetch", token |-> token,
                                    outcome |-> "none"],
                      !.lateGets = IF api.succeeded THEN @ + 1 ELSE @]
  /\ UNCHANGED ApiRest

(* the GET is answered: the key is cached and the token decoded, or the    *)
(* failure becomes HTTPException(500)                                      *)
ApiJwksAnswer(i) ==
  /\ api.calls[i].pc = "fetch"
  /\ \E answer \in JwksAnswers :
       IF answer = "error"
       THEN api' = [api EXCEPT !.calls[i].pc = "done",
                               !.calls[i].outcome = "500"]
       ELSE api' = [api EXCEPT
                      !.public_key = CachedKey(answer),
                      !.succeeded = TRUE,
                      !.calls[i].pc = "done",
                      !.calls[i].outcome =
                         get_current_user(api.calls[i].token,
                                          CachedKey(answer))]
  /\ UNCHANGED ApiRest

NextApi ==
  \/ \E i \in Reqs : ApiBegin(i)
  \/ \E i \in Reqs : ApiJwksAnswer(i)

SpecApi == InitApi /\ [][NextApi]_vars

(* ================ the authorization request: SpecAuthUrl =============== *)
(* A text is a sequence of pieces: a piece is a run of URL-safe characters *)
(* or one character that urlencode has to escape.                          *)
NoText == <<>>

(* base64 of nbytes bytes: four characters per three bytes, padded *)
B64Len(nbytes) == 4 * ((nbytes + 2) \div 3)

B64Padding(nbytes) == (3 - (nbytes % 3)) % 3

(* secrets.token_urlsafe(nbytes): URL-safe base64 with the padding removed; *)
(* r names the random bytes                                                 *)
token_urlsafe(nbytes, r) ==
  [text |-> <<r>>, len |-> B64Len(nbytes) - B64Padding(nbytes)]

(* secrets.token_hex(nbytes): two digits per byte *)
token_hex(nbytes, r) == [text |-> <<r>>, len |-> 2 * nbytes]

FlaskVerifierBytes == 32
DjangoVerifierBytes == 64
StateBytes == 32
NonceBytes == 16
DjangoStateBytes == 16
Sha256Bytes == 32

(* hashlib.sha256(text.encode('utf-8')).digest() *)
sha256(text) == <<"sha256">> \o text

(* base64.urlsafe_b64encode of a digest of nbytes bytes *)
urlsafe_b64encode(digest, nbytes) ==
  <<"b64url">> \o digest \o [i \in 1..B64Padding(nbytes) |-> "="]

(* str.rstrip('=') *)
RECURSIVE rstrip(_)
rstrip(text) ==
  IF text # <<>> /\ text[Len(text)] = "="
  THEN rstrip(SubSeq(text, 1, Len(text) - 1))
  ELSE text

(* a slip: the padding is left on *)
generate_code_challengeMutant(verifier) ==
  urlsafe_b64encode(sha256(verifier), Sha256Bytes)

(* _generate_code_challenge, and the same steps in generate_pkce *)
generate_code_challenge(verifier) ==
  rstrip(urlsafe_b64encode(sha256(verifier), Sha256Bytes))

(* urllib.parse.quote_plus, piece by piece *)
quote_plus(piece) ==
  CASE piece = " " -> "+"
    [] piece = "+" -> "%2B"
    [] piece = ":" -> "%3A"
    [] piece = "/" -> "%2F"
    [] piece = "=" -> "%3D"
    [] OTHER -> piece

(* urllib.parse.unquote_plus: how the provider reads a value *)
unquote_plus(piece) ==
  CASE piece = "+" -> " "
    [] piece = "%2B" -> "+"
    [] piece = "%3A" -> ":"
    [] piece = "%2F" -> "/"
    [] piece = "%3D" -> "="
    [] OTHER -> piece

(* ' '.join(scopes) *)
RECURSIVE join(_)
join(scopes) ==
  IF scopes = <<>> THEN <<>>
  ELSE IF Len(scopes) = 1 THEN <<scopes[1]>>
  ELSE <<scopes[1], " ">> \o join(Tail(scopes))

(* _build_url / urlencode: params is a sequence of [k, v] *)
build_url(base_url, params) ==
  [base |-> base_url,
   query |-> [i \in 1..Len(params) |->
                [k |-> params[i].k,
                 v |-> [j \in 1..Len(params[i].v) |->
                          quote_plus(params[i].v[j])]]]]

CLIENT_ID == <<"client-id">>
REDIRECT_URI == <<"https", ":", "/", "/", "app", "/", "auth", "/", "callback">>
DefaultScopes == <<"openid", "profile", "email">>

ScopeNames == {"openid", "profile", "email"}

ScopeLists == UNION { [1..n -> ScopeNames] : n \in 0..MaxScopes }

Randoms == {"r1", "r2"}

(* a state the caller passes in; NoText when it passes none *)
StateArgs == {NoText, <<"given">>, <<"a", " ", "b", "+">>}

(* self.scopes = scopes or [...] *)
ClientScopes(scopes) == IF scopes = <<>> THEN DefaultScopes ELSE scopes

Param(k, v) == [k |-> k, v |-> v]

(* a slip: the URL is not rebuilt after the nonce is added *)
FlaskUrlWithNonceMutant(base_url, params, url) == url

(* result['url'] = self._build_url(auth_url, params) after the nonce *)
FlaskUrlWithNonce(base_url, params, url) == build_url(base_url, params)

(* generate_authorization_url: keys are the keys of the returned dict *)
generate_authorization_url(pkce, scopes, state_arg, rnd) ==
  LET state == IF state_arg = NoText
               THEN token_urlsafe(StateBytes, rnd.state).text
               ELSE state_arg
      auth_url == "/oauth-provider/authorize"
      params == << Param("client_id", CLIENT_ID),
                   Param("redirect_uri", REDIRECT_URI),
                   Param("response_type", <<"code">>),
                   Param("scope", join(scopes)),
                   Param("state", state) >>
      code_verifier == token_urlsafe(FlaskVerifierBytes, rnd.verifier)
      params2 == IF pkce
                 THEN params \o
                      << Param("code_challenge",
                               generate_code_challenge(code_verifier.text)),
                         Param("code_challenge_method", <<"S256">>) >>
                 ELSE params
      url2 == build_url(auth_url, params2)
      nonce == token_urlsafe(NonceBytes, rnd.nonce)
      openid == \E i \in 1..Len(scopes) : scopes[i] = "openid"
      params3 == IF openid THEN params2 \o << Param("nonce", nonce.text) >>
                 ELSE params2
  IN [url |-> IF openid THEN FlaskUrlWithNonce(auth_url, params3, url2)
              ELSE url2,
      keys |-> {"url", "state"}
               \cup (IF pkce THEN {"code_verifier"} ELSE {})
               \cup (IF openid THEN {"nonce"} ELSE {}),
      state |-> state,
      code_verifier |-> IF pkce THEN code_verifier
                        ELSE [text |-> NoText, len |-> 0],
      nonce |-> IF openid THEN nonce.text ELSE NoText]

(* generate_pkce *)
generate_pkce(r) ==
  LET code_verifier == token_urlsafe(DjangoVerifierBytes, r) IN
  [code_verifier |-> code_verifier,
   code_challenge |-> generate_code_challenge(code_verifier.text)]

(* get_authorization_url of the Django client *)
get_authorization_url(state, code_challenge) ==
  build_url("/oauth/authorize",
            << Param("response_type", <<"code">>),
               Param("client_id", CLIENT_ID),
               Param("redirect_uri", REDIRECT_URI),
               Param("scope", <<"openid", " ", "profile", " ", "email">>),
               Param("state", state),
               Param("code_challenge", code_challenge),
               Param("code_challenge_method", <<"S256">>) >>)

(* login_view: what it stores in the session and the URL it redirects to *)
DjangoAuthorization(rnd) ==
  LET state == token_hex(DjangoStateBytes, rnd.state).text
      pkce == generate_pkce(rnd.verifier)
  IN [url |-> get_authorization_url(state, pkce.code_challenge),
      keys |-> {"url", "state", "code_verifier"},
      state |-> state,
      code_verifier |-> pkce.code_verifier,
      nonce |-> NoText]

NoAuthorization ==
  [url |-> [base |-> "", query |-> <<>>], keys |-> {}, state |-> NoText,
   code_verifier |-> [text |-> NoText, len |-> 0], nonce |-> NoText]

InitAuthUrl ==
  /\ session = EmptySession
  /\ now = 0
  /\ last = NoLast
  /\ reqs = [i \in Reqs |-> IdleReq]
  /\ provider = NoProvider
  /\ idp = Unstarted /\ call = Unstarted /\ api = Unstarted
  /\ flow = Unstarted
  /\ middleware = FALSE
  /\ framework \in {"flask", "django"}
  /\ use_pkce \in IF framework = "flask" THEN BOOLEAN ELSE {TRUE}
  /\ \E scopes \in IF framework = "flask" THEN ScopeLists ELSE {<<>>},
        state_arg \in IF framework = "flask" THEN StateArgs ELSE {NoText},
        rs \in Randoms, rv \in Randoms, rn \in Randoms :
       authz = [scopes |-> ClientScopes(scopes), state_arg |-> state_arg,
                rnd |-> [state |-> rs, verifier |-> rv, nonce |-> rn],
                done |-> FALSE, result |-> NoAuthorization]

AuthUrlRest ==
  <<Config, session, now, last, reqs, provider, idp, call, api, flow>>

FlaskAuthorize ==
  /\ framework = "flask" /\ ~authz.done
  /\ authz' = [authz EXCEPT
                 !.done = TRUE,
                 !.result = generate_authorization_url(
                              use_pkce, authz.scopes, authz.state_arg,
                              authz.rnd)]
  /\ UNCHANGED AuthUrlRest

DjangoAuthorize ==
  /\ framework = "django" /\ ~authz.done
  /\ authz' = [authz EXCEPT !.done = TRUE,
                            !.result = DjangoAuthorization(authz.rnd)]
  /\ UNCHANGED AuthUrlRest

NextAuthUrl ==
  \/ FlaskAuthorize
  \/ DjangoAuthorize

SpecAuthUrl == InitAuthUrl /\ [][NextAuthUrl]_vars

(* the value of query parameter k as the provider decodes it; the set is   *)
(* empty when the URL does not carry k                                     *)
QueryValues(url, k) ==
  { [j \in 1..Len(url.query[i].v) |-> unquote_plus(url.query[i].v[j])] :
      i \in { n \in 1..Len(url.query) : url.query[n].k = k } }

(* ============= the browser following the redirects: SpecFlow ============ *)
(* An unauthenticated user asks for a guarded route and the browser        *)
(* follows every redirect.  The provider approves every authorization and  *)
(* answers every token and user-info request successfully; ein is the      *)
(* expires_in it answers with and rt says whether it issues refresh        *)
(* tokens.  at is where the browser is, state the state parameter of the   *)
(* authorization request it carries.                                       *)
FlowAnswer ==
  [status |-> "2xx",
   body |-> [access_token |-> 1,
             refresh_token |-> IF flow.rt THEN 1 ELSE None,
             expires_in |-> flow.ein, token_type |-> TRUE, scope |-> TRUE]]

FlowUser == 1

FlowCode == 1

InitFlow ==
  /\ \E c \in Configs :
        framework = c[1] /\ use_pkce = c[2] /\ middleware = c[3]
  /\ session = EmptySession
  /\ now = 0
  /\ last = NoLast
  /\ reqs = [i \in Reqs |-> IdleReq]
  /\ provider = NoProvider
  /\ idp = Unstarted /\ call = Unstarted /\ api = Unstarted
  /\ authz = Unstarted
  /\ \E ein \in ExpiresIns, rt \in BOOLEAN :
       flow = [at |-> "guard", ein |-> ein, rt |-> rt, state |-> None]

FlowRest == <<Config, reqs, provider, idp, call, api, authz>>

(* GET of the guarded route *)
FlowGuard ==
  /\ flow.at = "guard"
  /\ LET r == IF framework = "flask"
              THEN require_auth(session, GuardUrl, FlowAnswer, now)
              ELSE require_oauth(
                     DjangoEnter(session, "guard", middleware, FlowAnswer,
                                 now),
                     GuardUrl, FlowAnswer, now)
     IN /\ session' = r.s /\ last' = r.l
        /\ flow' = [flow EXCEPT !.at = IF r.l.outcome = "view" THEN "served"
                                       ELSE "login"]
  /\ UNCHANGED <<FlowRest, now>>

(* the redirect to the login route is followed *)
FlowLogin ==
  /\ flow.at = "login"
  /\ \E n \in FreshStates(session) :
       LET r == IF framework = "flask"
                THEN auth_login(session, n, use_pkce, now)
                ELSE login_view(DjangoEnter(session, "login", middleware,
                                            FlowAnswer, now), n)
       IN /\ session' = r.s /\ last' = r.l
          /\ flow' = [flow EXCEPT !.at = "authorize", !.state = n]
  /\ UNCHANGED <<FlowRest, now>>

(* the user takes a while at the provider's login page *)
FlowTick ==
  /\ flow.at = "authorize"
  /\ now < MaxTicks * Tick
  /\ now' = now + Tick
  /\ UNCHANGED <<FlowRest, session, last, flow>>

(* the provider approves and redirects to the callback *)
FlowAuthorize ==
  /\ flow.at = "authorize"
  /\ flow' = [flow EXCEPT !.at = "callback"]
  /\ UNCHANGED <<FlowRest, session, last, now>>

(* the callback; its redirect leads back to the guarded route (Flask:      *)
(* return_to; Django: the landing page, from where the user asks again)    *)
FlowCallback ==
  /\ flow.at = "callback"
  /\ LET r == IF framework = "flask"
              THEN auth_callback(session, FlowCode, flow.state, FALSE,
                                 FlowAnswer, FlowUser, now)
              ELSE callback_view(
                     DjangoEnter(session, "callback", middleware, FlowAnswer,
                                 now),
                     FlowCode, flow.state, FlowAnswer, now)
     IN /\ session' = r.s /\ last' = r.l
        /\ flow' = [flow EXCEPT !.at = IF r.l.outcome = "redirect"
                                       THEN "guard" ELSE "error"]
  /\ UNCHANGED <<FlowRest, now>>

NextFlow ==
  \/ FlowGuard
  \/ FlowLogin
  \/ FlowTick
  \/ FlowAuthorize
  \/ FlowCallback

SpecFlow == InitFlow /\ [][NextFlow]_vars

(* the browser and the provider take their steps; time need not pass *)
SpecFlowLive ==
  /\ SpecFlow
  /\ WF_vars(FlowGuard) /\ WF_vars(FlowLogin) /\ WF_vars(FlowAuthorize)
  /\ WF_vars(FlowCallback)

(* ================================ claims =============================== *)
TokenFields(s) ==
  <<s.access_token, s.refresh_token, s.expires_at, s.user>>

Anonymous(s) == TokenFields(s) = <<None, None, None, None>>

(* C1: a callback whose state parameter differs from the state stored in  *)
(* the session (no stored state included) ends in an error response,      *)
(* sends no POST to the token endpoint, and the session gains no          *)
(* access_token.                                                          *)
C1_MismatchRejected ==
  (last.op = "callback" /\ ~last.stateOK) =>
    /\ last.outcome = "error"
    /\ last.tokenPosts = 0
    /\ (~last.hadAT => session.access_token = None)

C1_Witness ==
  /\ last.op = "callback" /\ ~last.stateOK /\ last.outcome = "error"
  /\ session.oauth_state # None /\ session.code_verifier # None

(* C2: of the concurrent guarded requests of one session at most one has  *)
(* a refresh POST in flight at any time.                                  *)
C2_SingleFlight ==
  Cardinality({ i \in Reqs : reqs[i].pc \in {"wait", "mw_wait"} }) <= 1

(* C3: after a request whose refresh attempt failed (guards, /auth/refresh *)
(* endpoint, middleware) the session holds no access_token, refresh_token, *)
(* expires_at or cached profile.                                           *)
C3_FailedRefreshClears ==
  (last.op \in {"guard", "refresh"} /\ last.refresh = "failed") =>
    Anonymous(session)

(* C4: after a successful refresh the session's refresh_token is the one  *)
(* the response carried, or, when it carried none, the one that was sent. *)
C4_RefreshTokenKept ==
  (last.op \in {"guard", "refresh"} /\ last.refresh = "ok") =>
    session.refresh_token =
      IF last.respRT # None THEN last.respRT ELSE last.sentRT

C4_Witness ==
  /\ last.op \in {"guard", "refresh"} /\ last.refresh = "ok"
  /\ last.respRT = None /\ last.sentRT # None
  /\ session.refresh_token = last.sentRT

(* C5: once a callback has attempted the token exchange, the stored state *)
(* and code_verifier are gone from the session, whether the exchange      *)
(* succeeded or failed.                                                   *)
C5_StateConsumed ==
  (last.op = "callback" /\ last.tokenPosts > 0) =>
    session.oauth_state = None /\ session.code_verifier = None

(* C6: a guarded request on a session that holds an access token, a       *)
(* refresh token and an expiry sends exactly one refresh POST when        *)
(* now >= expires_at - 300 and none when now < expires_at - 300.          *)
C6_OneRefreshWhenDue ==
  [][ (last'.op = "guard" /\ session.access_token # None
       /\ session.refresh_token # None /\ session.expires_at # None)
      => last'.refreshPosts =
           IF now >= session.expires_at - RefreshSkew THEN 1 ELSE 0 ]_vars

(* C7 as claimed: after auth_logout the session is empty and the response *)
(* is the redirect to "/", whatever the revoke call did, and revoke_token *)
(* returned True exactly when the provider answered 2xx.                  *)
C7_LogoutTrueOn2xx ==
  (last.op = "logout" /\ framework = "flask") =>
    /\ session = EmptySession
    /\ last.outcome = "redirect" /\ last.target = "/"
    /\ (last.revoke # "none" => (last.revoked <=> last.revoke = "2xx"))

(* C7 as amended: after auth_logout the session is empty and the response *)
(* is the redirect to "/", whatever the revoke call did, and revoke_token *)
(* returned True exactly when the provider answered with a status below   *)
(* 400 (2xx, or a redirect that is not followed), False on 4xx, 5xx and   *)
(* on a transport error.                                                  *)
C7_LogoutClears ==
  (last.op = "logout" /\ framework = "flask") =>
    /\ session = EmptySession
    /\ last.outcome = "redirect" /\ last.target = "/"
    /\ (last.hadAT <=> last.revoke # "none")
    /\ (last.revoke # "none" =>
         (last.revoked <=> last.revoke \in {"2xx", "3xx"}))

C7_Witness ==
  /\ last.op = "logout" /\ framework = "flask" /\ last.hadAT
  /\ last.revoke = "transport" /\ ~last.revoked
  /\ session = EmptySession

(* C8: a guarded view is never executed for a session whose access token  *)
(* is past expires_at.                                                    *)
C8_NoViewWhenExpired ==
  (last.op = "guard" /\ last.outcome = "view") =>
    ~(session.expires_at # None /\ now >= session.expires_at)

(* C9: a request leaves an access_token in a session that had none only   *)
(* if it is a callback that passed the state check and whose token        *)
(* exchange returned a token set, or a refresh that returned one; so a    *)
(* session holds an access_token only after such a request.               *)
C9_TokenOnlyFromProvider ==
  (session.access_token # None /\ ~last.hadAT) =>
    \/ /\ last.op = "callback" /\ last.stateOK
       /\ last.tokenPosts = 1 /\ last.exchange \in {"ok", "partial"}
    \/ /\ last.refreshPosts > 0 /\ last.refresh \in {"ok", "partial"}

C9_Witness ==
  /\ last.op = "callback" /\ last.stateOK /\ last.exchange = "ok"
  /\ ~last.hadAT /\ session.access_token # None

(* C10: a guarded request on a session without access_token is redirected *)
(* to the login route and the view is not executed; a guarded request     *)
(* either runs the view, the session then holding an access token, or     *)
(* sends the caller to log in.                                            *)
C10_GuardNeedsToken ==
  last.op = "guard" =>
    /\ last.outcome \in {"view", "login"}
    /\ (~last.hadAT => last.outcome = "login")
    /\ (last.outcome = "view" => session.access_token # None)

C10_Witness ==
  /\ last.op = "guard" /\ ~last.hadAT /\ last.outcome = "login"
  /\ session.access_token = None

(* C11: against a provider that redeems every authorization code once, an *)
(* exchange call that posts a code redeemed before raises instead of      *)
(* returning a token set, and no code completes more than one login of    *)
(* the session.                                                            *)
C11_CodeSingleUse ==
  /\ (last.op = "callback" /\ idp.reuse) =>
       /\ last.tokenPosts = 1 /\ last.exchange = "failed"
       /\ last.outcome = "error"
  /\ \A c \in IdpCodes : idp.logins[c] <= 1

C11_Witness ==
  /\ last.op = "callback" /\ idp.reuse /\ last.exchange = "failed"
  /\ \E c \in IdpCodes : idp.logins[c] = 1

C13_ProfileOfTokenOwner ==
  session.user # None =>
    /\ session.access_token # None
    /\ idp.owner[session.access_token] = session.user

TypeOK ==
  /\ session.access_token \in AccessTokens \cup {None}
  /\ session.refresh_token \in RefreshTokens \cup {None}
  /\ session.expires_at \in Nat
  /\ session.oauth_state \in States \cup {None}
  /\ now \in Nat

(* C14: get_current_user returns a user record only for a bearer token     *)
(* whose signature verifies against the fetched key, and a token whose     *)
(* signature does not verify is answered 401.                              *)
C14_SignatureVerified ==
  \A i \in Reqs :
    /\ api.calls[i].outcome = "user" => api.calls[i].token.signed
    /\ (api.calls[i].pc = "done" /\ ~api.calls[i].token.signed) =>
         api.calls[i].outcome = "401"

(* C15: once a JWKS GET has succeeded no call of get_public_key sends      *)
(* another one.                                                            *)
C15_FetchedOnce == api.lateGets = 0

(* C16: the URL generate_authorization_url returns carries                 *)
(* response_type=code, client_id, redirect_uri, the space-joined scope and *)
(* the returned state; code_challenge and code_challenge_method=S256       *)
(* exactly when the result has code_verifier, which is exactly when        *)
(* use_pkce; nonce exactly when the result has nonce, which is exactly     *)
(* when openid is among the scopes, and the URL's nonce is the returned    *)
(* one.                                                                    *)
C16_UrlParameters ==
  (framework = "flask" /\ authz.done) =>
    LET res == authz.result
        url == res.url
        openid == \E i \in 1..Len(authz.scopes) : authz.scopes[i] = "openid"
    IN /\ QueryValues(url, "response_type") = {<<"code">>}
       /\ QueryValues(url, "client_id") = {CLIENT_ID}
       /\ QueryValues(url, "redirect_uri") = {REDIRECT_URI}
       /\ QueryValues(url, "scope") = {join(authz.scopes)}
       /\ QueryValues(url, "state") = {res.state}
       /\ {"url", "state"} \subseteq res.keys
       /\ ("code_verifier" \in res.keys) <=> use_pkce
       /\ IF "code_verifier" \in res.keys
          THEN /\ Cardinality(QueryValues(url, "code_challenge")) = 1
               /\ QueryValues(url, "code_challenge_method") = {<<"S256">>}
          ELSE /\ QueryValues(url, "code_challenge") = {}
               /\ QueryValues(url, "code_challenge_method") = {}
       /\ ("nonce" \in res.keys) <=> openid
       /\ IF "nonce" \in res.keys
          THEN QueryValues(url, "nonce") = {res.nonce}
          ELSE QueryValues(url, "nonce") = {}

C16_Witness ==
  /\ framework = "flask" /\ authz.done /\ use_pkce
  /\ "nonce" \in authz.result.keys
  /\ authz.state_arg = NoText
  /\ Len(authz.scopes) = 2

(* C17: a generated code_verifier is between 43 and 128 characters long,   *)
(* and the code_challenge sent with it is the base64url encoding, without  *)
(* padding, of the SHA-256 digest of that verifier.                        *)
C17_VerifierAndChallenge ==
  (authz.done /\ "code_verifier" \in authz.result.keys) =>
    /\ authz.result.code_verifier.len >= 43
    /\ authz.result.code_verifier.len <= 128
    /\ QueryValues(authz.result.url, "code_challenge") =
         { <<"b64url", "sha256">> \o authz.result.code_verifier.text }

C17_Witness ==
  /\ authz.done /\ framework = "django"
  /\ authz.result.code_verifier.len = 86
  /\ QueryValues(authz.result.url, "code_challenge") # {}

(* C18: an operation that has sent its request eventually returns or       *)
(* raises, even if the provider never answers, and a logout whose revoke   *)
(* request is never answered still clears the session.                     *)
C18_EveryCallEnds ==
  /\ (call.pc = "sent") ~> (call.pc # "sent")
  /\ (call.handler = "auth_logout") ~> call.cleared

(* C19: an exchange, refresh, user-info or introspect call answered with a *)
(* status that is not 2xx raises; the failure carries error code and       *)
(* description when the body has both, and the HTTP status when the body   *)
(* does not parse.                                                         *)
C19_FailureCarriesError ==
  (/\ call.result.kind # "none"
   /\ call.client \in {"flask", "django"} /\ call.op # "revoke_token"
   /\ call.answer.status \in {"3xx", "4xx", "5xx"}) =>
    /\ call.result.kind = "raised"
    /\ (call.answer.parseable /\ call.answer.error
          /\ call.answer.description) =>
         (call.result.error /\ call.result.description)
    /\ ~call.answer.parseable => call.result.status

(* C20: with a provider that rotates refresh tokens, once the provider has *)
(* issued the session a new token pair the session is never left cleared   *)
(* by a concurrent guarded request: it keeps an access token and its       *)
(* refresh token is never one the provider has already replaced, save in   *)
(* the requests still in progress.                                         *)
C20_WinnerKept ==
  (provider.rotates /\ provider.minted > 1) =>
    /\ session.access_token # None
    /\ (\A i \in Reqs : reqs[i].pc \in {"idle", "done"}) =>
         session.refresh_token = provider.rt

(* C21: a guarded request on a session that holds an access token not yet  *)
(* past expires_at and no refresh token serves the view and leaves the     *)
(* session as it was, the last 300 seconds before expiry included.         *)
C21_KeptUntilExpired ==
  [][ (/\ last'.op = "guard" /\ last'.refreshPosts = 0
       /\ session.access_token # None /\ session.refresh_token = None
       /\ session.expires_at # None /\ now < session.expires_at)
      => (last'.outcome = "view" /\ session' = session) ]_vars

(* C22: a callback that completes a login redirects to the target the      *)
(* guard stored in the session (return_to in Flask, next in Django), or to *)
(* the default landing page when none is stored, and afterwards the        *)
(* session stores no target.                                               *)
C22_ReturnsToTarget ==
  [][ (last'.op = "callback" /\ last'.exchange = "ok"
       /\ last'.refreshPosts = 0)
      => /\ last'.outcome = "redirect"
         /\ last'.target =
              IF framework = "flask"
              THEN IF session.return_to # NoUrl THEN session.return_to
                   ELSE "/dashboard"
              ELSE IF session.next # NoUrl THEN session.next
                   ELSE LOGIN_REDIRECT_URL
         /\ session'.return_to = NoUrl /\ session'.next = NoUrl ]_vars

(* C23: Django with the middleware installed: when the middleware's        *)
(* refresh fails in front of a guarded view, the session is flushed, the   *)
(* view is not executed and the response is the redirect to oauth_login.   *)
C23_MiddlewareFailureRedirects ==
  (/\ last.op = "guard" /\ framework = "django" /\ middleware
   /\ last.refreshPosts = 1 /\ last.refresh \in {"failed", "partial"}) =>
    /\ last.outcome = "login"
    /\ session = [EmptySession EXCEPT !.next = DjangoGuardedUrl]

C23_Witness ==
  /\ last.op = "guard" /\ framework = "django" /\ middleware
  /\ last.hadAT /\ last.refreshPosts = 1 /\ last.refresh = "failed"
  /\ last.outcome = "login" /\ session.access_token = None

(* C24: a session that holds an access_token holds an expires_at.          *)
C24_ExpiryStored ==
  session.access_token # None => session.expires_at # None

(* C25: a callback that ends in the error response on a session that had   *)
(* no access token leaves it without one.                                  *)
C25_FailedCallbackUnauthenticated ==
  (last.op = "callback" /\ last.outcome = "error" /\ ~last.hadAT) =>
    session.access_token = None

(* C26: the code_verifier a callback passes to the token exchange is the   *)
(* one generated by the login whose state the callback's state parameter   *)
(* matched; a callback that carries the state of an overwritten login is   *)
(* rejected and exchanges nothing.                                         *)
C26_VerifierOfMatchedLogin ==
  [][ (last'.op = "callback" /\ last'.refreshPosts = 0) =>
        IF last'.stateOK
        THEN last'.tokenPosts > 0 =>
               (session.oauth_state # None
                /\ last'.sentVerifier = session.oauth_state)
        ELSE last'.tokenPosts = 0 /\ last'.sentVerifier = None ]_vars

C26_Witness ==
  /\ last.op = "callback" /\ last.stateOK /\ last.tokenPosts = 1
  /\ last.sentVerifier # None /\ last.hadAT /\ last.exchange = "ok"

C27_EventuallyServed == <>(flow.at = "served")

====
